---- MODULE Spec2Model ----
(***************************************************************************)
(* A model of the Infoblox WAPI client (infoblox.py, Python 2).            *)
(*                                                                         *)
(* Python strings are sequences of one-character strings, so that          *)
(* str.replace, str.startswith, str.lower, str.upper and '+' are computed  *)
(* character by character.  Every other Python value is a tagged record    *)
(* [t, v]; a dict is a function from its keys to its values.               *)
(***************************************************************************)
EXTENDS Integers, Sequences, FiniteSets, TLC

\* ------------------------------------------------------------------ bounds
MaxRecords == 2     \* longest result list a lookup response carries
MaxNum == 2         \* largest n passed to get_next_ip

\* --------------------------------------------------------- Python values
PStr(s) == [t |-> "str", v |-> s]
PList(l) == [t |-> "list", v |-> l]
PDict(f) == [t |-> "dict", v |-> f]
PInt(n) == [t |-> "int", v |-> <<n>>]
PTrue == [t |-> "True", v |-> <<>>]
PFalse == [t |-> "False", v |-> <<>>]
PNone == [t |-> "None", v |-> <<>>]

\* bool(x), as `if x:` evaluates it
Truthy(x) ==
    CASE x.t = "True" -> TRUE
      [] x.t = "False" -> FALSE
      [] x.t = "None" -> FALSE
      [] x.t = "int" -> x.v[1] # 0
      [] x.t = "str" -> Len(x.v) > 0
      [] x.t = "list" -> Len(x.v) > 0
      [] x.t = "dict" -> DOMAIN x.v # {}

\* isinstance(x, dict)
IsDict(x) == x.t = "dict"

\* the outcome of a call: a returned value or a raised exception
Return(x) == [kind |-> "return", type |-> "", value |-> x]
Raise(ty, x) == [kind |-> "raise", type |-> ty, value |-> x]
NoOutcome == [kind |-> "none", type |-> "", value |-> PNone]

\* ------------------------------------------------------- string builtins
UpperAlpha == <<"A", "B", "C", "D", "E", "F", "G", "H", "I", "J", "K", "L", "M", "N", "O", "P", "Q", "R", "S", "T", "U", "V", "W", "X", "Y", "Z">>
LowerAlpha == <<"a", "b", "c", "d", "e", "f", "g", "h", "i", "j", "k", "l", "m", "n", "o", "p", "q", "r", "s", "t", "u", "v", "w", "x", "y", "z">>

LowerChar(c) ==
    IF \E i \in 1..26 : UpperAlpha[i] = c
    THEN LowerAlpha[CHOOSE i \in 1..26 : UpperAlpha[i] = c]
    ELSE c

UpperChar(c) ==
    IF \E i \in 1..26 : LowerAlpha[i] = c
    THEN UpperAlpha[CHOOSE i \in 1..26 : LowerAlpha[i] = c]
    ELSE c

\* s.lower()
Lower(s) == [i \in 1..Len(s) |-> LowerChar(s[i])]

\* s.upper()
Upper(s) == [i \in 1..Len(s) |-> UpperChar(s[i])]

\* s.replace(old, new) for a one-character old
RECURSIVE Replace(_, _, _)
Replace(s, old, new) ==
    IF s = <<>> THEN <<>>
    ELSE (IF Head(s) = old THEN new ELSE <<Head(s)>>) \o Replace(Tail(s), old, new)

\* s.startswith(p)
StartsWith(s, p) == Len(p) <= Len(s) /\ SubSeq(s, 1, Len(p)) = p

\* x in l, for a list of strings
In(x, l) == \E i \in 1..Len(l) : l[i] = x

\* -------------------------------------------------------------- literals
Quote == "\""
Str_network == <<"n", "e", "t", "w", "o", "r", "k">>
Str_record == <<"r", "e", "c", "o", "r", "d", ":">>
Str_fixedaddress == <<"f", "i", "x", "e", "d", "a", "d", "d", "r", "e", "s", "s">>
Str_range == <<"r", "a", "n", "g", "e">>
Str_member == <<"m", "e", "m", "b", "e", "r">>
Str_next_available_ip == <<"?", "_", "f", "u", "n", "c", "t", "i", "o", "n", "=", "n", "e", "x", "t", "_", "a", "v", "a", "i", "l", "a", "b", "l", "e", "_", "i", "p">>
Str_wapi == <<"/", "w", "a", "p", "i", "/", "v">>
Str_slash == <<"/">>
Str_GET == <<"G", "E", "T">>
Str_POST == <<"P", "O", "S", "T">>
Str_DELETE == <<"D", "E", "L", "E", "T", "E">>
Str_unsupported == <<"u", "n", "s", "u", "p", "p", "o", "r", "t", "e", "d", " ", "r", "e", "c", "o", "r", "d", " ", "t", "y", "p", "e", " ">>
Str_unable_delete == <<"U", "n", "a", "b", "l", "e", " ", "t", "o", " ", "d", "e", "l", "e", "t", "e", " ">>
Str_unable_next_ip ==
    <<"U", "n", "a", "b", "l", "e", " ", "t", "o", " ", "r", "e", "t", "r", "i", "e", "v", "e", " ", "n", "e", "x", "t", " ", "a", "v", "a", "i", "l", "a", "b", "l", "e", " ", "I", "P", " ">> \o [i \in 1..28 |-> " "] \o <<"a", "d", "d", "r", "e", "s", "s", " ", "f", "o", "r", " ">>

K_ref == <<"_", "r", "e", "f">>
K_text == <<"t", "e", "x", "t">>
K_name == <<"n", "a", "m", "e">>
K_value == <<"v", "a", "l", "u", "e">>
K_network == <<"n", "e", "t", "w", "o", "r", "k">>
K_options == <<"o", "p", "t", "i", "o", "n", "s">>
K_members == <<"m", "e", "m", "b", "e", "r", "s">>
K_struct == <<"_", "s", "t", "r", "u", "c", "t">>
K_ipv4addr == <<"i", "p", "v", "4", "a", "d", "d", "r">>
K_ipv6addr == <<"i", "p", "v", "6", "a", "d", "d", "r">>
K_canonical == <<"c", "a", "n", "o", "n", "i", "c", "a", "l">>
K_ipv4addrs == <<"i", "p", "v", "4", "a", "d", "d", "r", "s">>
K_ptrdname == <<"p", "t", "r", "d", "n", "a", "m", "e">>
K_mail_exchanger == <<"m", "a", "i", "l", "_", "e", "x", "c", "h", "a", "n", "g", "e", "r">>
K_preference == <<"p", "r", "e", "f", "e", "r", "e", "n", "c", "e">>
K_mac == <<"m", "a", "c">>
K_comment == <<"c", "o", "m", "m", "e", "n", "t">>
K_num == <<"n", "u", "m">>
K_start_addr == <<"s", "t", "a", "r", "t", "_", "a", "d", "d", "r">>
K_end_addr == <<"e", "n", "d", "_", "a", "d", "d", "r">>
K_use_option == <<"u", "s", "e", "_", "o", "p", "t", "i", "o", "n">>
K_vendor_class == <<"v", "e", "n", "d", "o", "r", "_", "c", "l", "a", "s", "s">>
K_ips == <<"i", "p", "s">>
Str_dhcpmember == <<"d", "h", "c", "p", "m", "e", "m", "b", "e", "r">>
Str_DHCP == <<"D", "H", "C", "P">>

T_A == <<"A">>
T_AAAA == <<"A", "A", "A", "A">>
T_CNAME == <<"C", "N", "A", "M", "E">>
T_HOST == <<"H", "O", "S", "T">>
T_MX == <<"M", "X">>
T_PTR == <<"P", "T", "R">>
T_SRV == <<"S", "R", "V">>
T_TXT == <<"T", "X", "T">>

\* ------------------------------------------------------------------ JSON
\* Serialisation of a JSON value to the characters of a body.
RECURSIVE Encode(_), EncodeItems(_), EncodeMembers(_, _)
Encode(x) ==
    CASE x.t = "str" -> <<Quote>> \o x.v \o <<Quote>>
      [] x.t = "list" -> <<"[">> \o EncodeItems(x.v) \o <<"]">>
      [] x.t = "dict" -> <<"{">> \o EncodeMembers(x.v, DOMAIN x.v) \o <<"}">>
      [] x.t = "True" -> <<"t", "r", "u", "e">>

EncodeItems(l) ==
    IF l = <<>> THEN <<>>
    ELSE Encode(Head(l)) \o (IF Len(l) > 1 THEN <<",">> ELSE <<>>) \o EncodeItems(Tail(l))

EncodeMembers(f, keys) ==
    IF keys = {} THEN <<>>
    ELSE LET k == CHOOSE k \in keys : TRUE
         IN <<Quote>> \o k \o <<Quote, ":">> \o Encode(f[k])
            \o (IF keys \ {k} # {} THEN <<",">> ELSE <<>>)
            \o EncodeMembers(f, keys \ {k})

\* ------------------------------------------------- the remote WAPI service
\* Object references the service hands out.
RefNet == <<"n", "e", "t", "w", "o", "r", "k", "/", "1">>
RefRec == <<"r", "e", "c", "o", "r", "d", ":", "h", "o", "s", "t", "/", "1">>
Refs == {RefNet, RefRec}

\* all sequences over S of length at most n
RECURSIVE SeqsUpTo(_, _)
SeqsUpTo(S, n) ==
    IF n = 0 THEN {<<>>}
    ELSE LET shorter == SeqsUpTo(S, n - 1)
         IN shorter \cup {Append(l, e) : l \in {x \in shorter : Len(x) = n - 1}, e \in S}

\* The JSON values the service answers with: result lists, objects, an
\* error object, bare strings.
JsonValues ==
    {PList(l) : l \in SeqsUpTo({PDict(K_ref :> PStr(r)) : r \in Refs}, MaxRecords)}
    \cup {PList(<<PDict(K_name :> PStr(<<"h", "1", ".", "x">>))>>),
          PDict(<<>>),
          PDict(K_text :> PStr(<<"n", "o", "t", " ", "f", "o", "u", "n", "d">>)),
          PDict(K_ips :> PList(<<PStr(<<"1", "0", ".", "0", ".", "0", ".", "2">>)>>)),
          PStr(<<>>),
          PTrue}
    \cup {PStr(r) : r \in Refs}

\* Bodies that are not JSON.
RawBodies == {<<>>, <<"<", "h", "t", "m", "l", ">">>, RefNet}

Encoded == {<<Encode(x), x>> : x \in JsonValues}

Bodies == {p[1] : p \in Encoded} \cup RawBodies

\* json.loads(content) / res.json()
JsonDecode(content) ==
    IF \E p \in Encoded : p[1] = content
    THEN Return((CHOOSE p \in Encoded : p[1] = content)[2])
    ELSE Raise("ValueError", PNone)

Statuses == {200, 201, 204, 302, 404, 500}

Responses == [status_code : Statuses, content : Bodies]

\* ------------------------------------------------------ subscript, concat
\* x[i] for an integer i (0-based)
GetItemInt(x, i) ==
    CASE x.t = "list" ->
            IF i + 1 <= Len(x.v) THEN Return(x.v[i + 1]) ELSE Raise("IndexError", PNone)
      [] x.t = "str" ->
            IF i + 1 <= Len(x.v) THEN Return(PStr(<<x.v[i + 1]>>)) ELSE Raise("IndexError", PNone)
      [] x.t = "dict" -> Raise("KeyError", PInt(i))
      [] OTHER -> Raise("TypeError", PNone)

\* x[k] for a string k
GetItemStr(x, k) ==
    CASE x.t = "dict" ->
            IF k \in DOMAIN x.v THEN Return(x.v[k]) ELSE Raise("KeyError", PStr(k))
      [] OTHER -> Raise("TypeError", PNone)

\* a.update(b)
Update(a, b) ==
    PDict([k \in DOMAIN a.v \cup DOMAIN b.v |-> IF k \in DOMAIN b.v THEN b.v[k] ELSE a.v[k]])

\* ------------------------------------------------------------- the client
VARIABLES
    hostname, username, password, version, url, _RECORDS,  \* set by __init__
    defaultOptions,   \* the dict object behind create_network's options={}
    callerOptions,    \* a dict object the caller owns and passes as options
    pc,               \* "idle": no call in progress; "done": a call has ended
    call,             \* the operation called and its arguments
    sent,             \* the HTTP requests the call issued, in order
    recv,             \* the responses the call received, in order
    outcome           \* what the call returned or raised

config == <<hostname, username, password, version, url, _RECORDS>>
vars == <<hostname, username, password, version, url, _RECORDS,
          defaultOptions, callerOptions, pc, call, sent, recv, outcome>>

\* what a call that has issued no request so far has done
Failed(out) == [sent |-> <<>>, recv |-> <<>>, out |-> out]

\* _request as it would be if only statuses from 400 up were errors
_request_lenient(obj, req, method, rs) ==
    LET m == Upper(method)
        r == rs[1]
        rq == [method |-> m,
               url |-> url \o obj,
               obj |-> obj,
               req |-> IF m = Str_DELETE THEN PNone ELSE req,
               auth |-> <<username, password>>]
        out ==
            IF r.status_code = 200 \/ r.status_code = 201
            THEN IF StartsWith(Replace(r.content, Quote, <<>>), obj)
                 THEN Return(PTrue)
                 ELSE JsonDecode(r.content)
            ELSE IF r.status_code < 400 THEN Return(PNone)
            ELSE LET body == JsonDecode(r.content)
                 IN IF body.kind = "raise" THEN body
                    ELSE LET text == GetItemStr(body.value, K_text)
                         IN IF text.kind = "raise" THEN text
                            ELSE Raise("Exception", text.value)
    IN IF m \notin {Str_GET, Str_POST, Str_DELETE}
       THEN Failed(Raise("UnboundLocalError", PNone))
       ELSE [sent |-> <<rq>>, recv |-> <<r>>, out |-> out]

\* _request as it would be if the quotes were left in the body
_request_unstripped(obj, req, method, rs) ==
    LET m == Upper(method)
        r == rs[1]
        rq == [method |-> m,
               url |-> url \o obj,
               obj |-> obj,
               req |-> IF m = Str_DELETE THEN PNone ELSE req,
               auth |-> <<username, password>>]
        out ==
            IF r.status_code = 200 \/ r.status_code = 201
            THEN IF StartsWith(r.content, obj)
                 THEN Return(PTrue)
                 ELSE JsonDecode(r.content)
            ELSE LET body == JsonDecode(r.content)
                 IN IF body.kind = "raise" THEN body
                    ELSE LET text == GetItemStr(body.value, K_text)
                         IN IF text.kind = "raise" THEN text
                            ELSE Raise("Exception", text.value)
    IN IF m \notin {Str_GET, Str_POST, Str_DELETE}
       THEN Failed(Raise("UnboundLocalError", PNone))
       ELSE [sent |-> <<rq>>, recv |-> <<r>>, out |-> out]

\* Infoblox._request(obj, req, method); rs holds the service's next responses
_request(obj, req, method, rs) ==
    LET m == Upper(method)
        r == rs[1]
        rq == [method |-> m,
               url |-> url \o obj,
               obj |-> obj,
               req |-> IF m = Str_DELETE THEN PNone ELSE req,
               auth |-> <<username, password>>]
        out ==
            IF r.status_code = 200 \/ r.status_code = 201
            THEN IF StartsWith(Replace(r.content, Quote, <<>>), obj)
                 THEN Return(PTrue)
                 ELSE JsonDecode(r.content)
            ELSE LET body == JsonDecode(r.content)
                 IN IF body.kind = "raise" THEN body
                    ELSE LET text == GetItemStr(body.value, K_text)
                         IN IF text.kind = "raise" THEN text
                            ELSE Raise("Exception", text.value)
    IN IF m \notin {Str_GET, Str_POST, Str_DELETE}
       THEN Failed(Raise("UnboundLocalError", PNone))
       ELSE [sent |-> <<rq>>, recv |-> <<r>>, out |-> out]

\* Infoblox.get_network(network)
get_network(network, rs) ==
    _request(Str_network, PDict(K_network :> network), Str_GET, rs)

\* Infoblox.get_record(record, record_type)
get_record(record, record_type, rs) ==
    IF In(record_type, _RECORDS)
    THEN _request(Str_record \o record_type, PDict(K_name :> record), Str_GET, rs)
    ELSE Failed(Raise("Exception", PStr(Str_unsupported \o record_type)))

\* delete_record as it would be if the DELETE were issued twice
delete_record_resend(record, record_type, rs) ==
    LET look == get_record(record, record_type, rs)
        ref == look.out.value
        first == GetItemInt(ref, 0)
        target == GetItemStr(first.value, K_ref)
    IN IF look.out.kind = "raise" THEN look
       ELSE IF ~Truthy(ref)
       THEN [look EXCEPT !.out = Raise("Exception", PStr(Str_unable_delete \o record.v))]
       ELSE IF first.kind = "raise" THEN [look EXCEPT !.out = first]
       ELSE IF target.kind = "raise" THEN [look EXCEPT !.out = target]
       ELSE IF target.value.t # "str" THEN [look EXCEPT !.out = Raise("TypeError", PNone)]
       ELSE LET del == _request(target.value.v, PDict(<<>>), Str_DELETE, Tail(rs))
            IN [sent |-> look.sent \o del.sent \o del.sent, recv |-> look.recv \o del.recv \o del.recv,
                out |-> del.out]

\* delete_record as it would be without the test of the lookup result
delete_record_unchecked(record, record_type, rs) ==
    LET look == get_record(record, record_type, rs)
        ref == look.out.value
        first == GetItemInt(ref, 0)
        target == GetItemStr(first.value, K_ref)
    IN IF look.out.kind = "raise" THEN look
       ELSE IF FALSE
       THEN [look EXCEPT !.out = Raise("Exception", PStr(Str_unable_delete \o record.v))]
       ELSE IF first.kind = "raise" THEN [look EXCEPT !.out = first]
       ELSE IF target.kind = "raise" THEN [look EXCEPT !.out = target]
       ELSE IF target.value.t # "str" THEN [look EXCEPT !.out = Raise("TypeError", PNone)]
       ELSE LET del == _request(target.value.v, PDict(<<>>), Str_DELETE, Tail(rs))
            IN [sent |-> look.sent \o del.sent, recv |-> look.recv \o del.recv,
                out |-> del.out]

\* Infoblox.delete_record(record, record_type)
delete_record(record, record_type, rs) ==
    LET look == get_record(record, record_type, rs)
        ref == look.out.value
        first == GetItemInt(ref, 0)
        target == GetItemStr(first.value, K_ref)
    IN IF look.out.kind = "raise" THEN look
       ELSE IF ~Truthy(ref)
       THEN [look EXCEPT !.out = Raise("Exception", PStr(Str_unable_delete \o record.v))]
       ELSE IF first.kind = "raise" THEN [look EXCEPT !.out = first]
       ELSE IF target.kind = "raise" THEN [look EXCEPT !.out = target]
       ELSE IF target.value.t # "str" THEN [look EXCEPT !.out = Raise("TypeError", PNone)]
       ELSE LET del == _request(target.value.v, PDict(<<>>), Str_DELETE, Tail(rs))
            IN [sent |-> look.sent \o del.sent, recv |-> look.recv \o del.recv,
                out |-> del.out]

\* create_network as it would be if the defaults were merged into options itself
create_network_inplace(network, grid, options, rs) ==
    LET opts == IF Truthy(options) /\ IsDict(options)
                THEN Update(PDict((K_use_option :> PTrue) @@ (K_vendor_class :> PStr(Str_DHCP))),
                            options)
                ELSE PNone
        members == PList(<<PDict((K_struct :> PStr(Str_dhcpmember)) @@ (K_ipv4addr :> grid))>>)
        data ==
            IF Truthy(grid)
            THEN IF Truthy(options)
                 THEN PDict((K_network :> network) @@ (K_options :> PList(<<options>>))
                            @@ (K_members :> members))
                 ELSE PDict((K_network :> network) @@ (K_members :> members))
            ELSE IF Truthy(options)
                 THEN PDict((K_network :> network) @@ (K_options :> PList(<<options>>)))
                 ELSE PDict(K_network :> network)
        res == _request(Str_network, data, Str_POST, rs)
    IN [sent |-> res.sent, recv |-> res.recv, out |-> res.out,
        options |-> IF opts = PNone THEN options ELSE opts]

\* Infoblox.create_network(network, grid, options); the result also carries
\* the contents of the object passed as options once the call has ended
create_network(network, grid, options, rs) ==
    LET opts == IF Truthy(options) /\ IsDict(options)
                THEN Update(PDict((K_use_option :> PTrue) @@ (K_vendor_class :> PStr(Str_DHCP))),
                            options)
                ELSE PNone
        members == PList(<<PDict((K_struct :> PStr(Str_dhcpmember)) @@ (K_ipv4addr :> grid))>>)
        data ==
            IF Truthy(grid)
            THEN IF Truthy(options)
                 THEN PDict((K_network :> network) @@ (K_options :> PList(<<options>>))
                            @@ (K_members :> members))
                 ELSE PDict((K_network :> network) @@ (K_members :> members))
            ELSE IF Truthy(options)
                 THEN PDict((K_network :> network) @@ (K_options :> PList(<<options>>)))
                 ELSE PDict(K_network :> network)
        res == _request(Str_network, data, Str_POST, rs)
    IN [sent |-> res.sent, recv |-> res.recv, out |-> res.out, options |-> options]

\* create_record as it would be if the MX keys were read with dict.get
create_record_defaults(record_type, record, data, rs) ==
    LET base == (T_A :> PDict((K_name :> record) @@ (K_ipv4addr :> data)))
             @@ (T_AAAA :> PDict((K_name :> record) @@ (K_ipv6addr :> data)))
             @@ (T_CNAME :> PDict((K_name :> record) @@ (K_canonical :> data)))
             @@ (T_HOST :> PDict((K_name :> record)
                                 @@ (K_ipv4addrs :> PList(<<PDict(K_ipv4addr :> data)>>))))
             @@ (T_PTR :> PDict((K_name :> record) @@ (K_ipv4addr :> data)
                                @@ (K_ptrdname :> record)))
             @@ (T_TXT :> PDict((K_name :> record) @@ (K_text :> data)))
        mail_exchanger == IF K_mail_exchanger \in DOMAIN data.v
                          THEN GetItemStr(data, K_mail_exchanger) ELSE Return(PNone)
        preference == IF K_preference \in DOMAIN data.v
                      THEN GetItemStr(data, K_preference) ELSE Return(PNone)
        _options ==
            IF IsDict(data)
            THEN (T_MX :> PDict((K_name :> record)
                                @@ (K_mail_exchanger :> mail_exchanger.value)
                                @@ (K_preference :> preference.value))) @@ base
            ELSE base
    IN IF IsDict(data) /\ mail_exchanger.kind = "raise" THEN Failed(mail_exchanger)
       ELSE IF IsDict(data) /\ preference.kind = "raise" THEN Failed(preference)
       ELSE IF In(record_type, _RECORDS)
       THEN IF Upper(record_type) \in DOMAIN _options
            THEN _request(Str_record \o Lower(record_type), _options[Upper(record_type)],
                          Str_POST, rs)
            ELSE Failed(Raise("KeyError", PStr(Upper(record_type))))
       ELSE Failed(Raise("Exception", PStr(Str_unsupported \o record_type)))

\* Infoblox.create_record(record_type, record, data)
create_record(record_type, record, data, rs) ==
    LET base == (T_A :> PDict((K_name :> record) @@ (K_ipv4addr :> data)))
             @@ (T_AAAA :> PDict((K_name :> record) @@ (K_ipv6addr :> data)))
             @@ (T_CNAME :> PDict((K_name :> record) @@ (K_canonical :> data)))
             @@ (T_HOST :> PDict((K_name :> record)
                                 @@ (K_ipv4addrs :> PList(<<PDict(K_ipv4addr :> data)>>))))
             @@ (T_PTR :> PDict((K_name :> record) @@ (K_ipv4addr :> data)
                                @@ (K_ptrdname :> record)))
             @@ (T_TXT :> PDict((K_name :> record) @@ (K_text :> data)))
        mail_exchanger == GetItemStr(data, K_mail_exchanger)
        preference == GetItemStr(data, K_preference)
        _options ==
            IF IsDict(data)
            THEN (T_MX :> PDict((K_name :> record)
                                @@ (K_mail_exchanger :> mail_exchanger.value)
                                @@ (K_preference :> preference.value))) @@ base
            ELSE base
    IN IF IsDict(data) /\ mail_exchanger.kind = "raise" THEN Failed(mail_exchanger)
       ELSE IF IsDict(data) /\ preference.kind = "raise" THEN Failed(preference)
       ELSE IF In(record_type, _RECORDS)
       THEN IF Upper(record_type) \in DOMAIN _options
            THEN _request(Str_record \o Lower(record_type), _options[Upper(record_type)],
                          Str_POST, rs)
            ELSE Failed(Raise("KeyError", PStr(Upper(record_type))))
       ELSE Failed(Raise("Exception", PStr(Str_unsupported \o record_type)))

\* Infoblox.create_fixed_address(hostname, ip, mac, comment)
create_fixed_address(host, ip, mac, comment, rs) ==
    _request(Str_fixedaddress,
             PDict((K_name :> host) @@ (K_ipv4addr :> ip) @@ (K_mac :> mac)
                   @@ (K_comment :> comment)),
             Str_POST, rs)

\* get_next_ip as it would be if it took the last result of the lookup
get_next_ip_last(network, n, rs) ==
    LET look == get_network(network, rs)
        first == GetItemInt(look.out.value,
                           IF look.out.value.t = "list" /\ Len(look.out.value.v) > 0
                           THEN Len(look.out.value.v) - 1 ELSE 0)
        ref == GetItemStr(first.value, K_ref)
        tried ==
            IF look.out.kind = "raise" THEN look
            ELSE IF first.kind = "raise" THEN [look EXCEPT !.out = first]
            ELSE IF ref.kind = "raise" THEN [look EXCEPT !.out = ref]
            ELSE IF ref.value.t # "str" THEN [look EXCEPT !.out = Raise("TypeError", PNone)]
            ELSE LET post == _request(ref.value.v \o Str_next_available_ip,
                                      PDict(K_num :> n), Str_POST, Tail(rs))
                 IN [sent |-> look.sent \o post.sent, recv |-> look.recv \o post.recv,
                     out |-> post.out]
    IN IF tried.out.kind = "raise" /\ tried.out.type = "IndexError"
       THEN [tried EXCEPT !.out = Raise("Exception", PStr(Str_unable_next_ip \o network.v))]
       ELSE tried

\* Infoblox.get_next_ip(network, n)
get_next_ip(network, n, rs) ==
    LET look == get_network(network, rs)
        first == GetItemInt(look.out.value, 0)
        ref == GetItemStr(first.value, K_ref)
        tried ==
            IF look.out.kind = "raise" THEN look
            ELSE IF first.kind = "raise" THEN [look EXCEPT !.out = first]
            ELSE IF ref.kind = "raise" THEN [look EXCEPT !.out = ref]
            ELSE IF ref.value.t # "str" THEN [look EXCEPT !.out = Raise("TypeError", PNone)]
            ELSE LET post == _request(ref.value.v \o Str_next_available_ip,
                                      PDict(K_num :> n), Str_POST, Tail(rs))
                 IN [sent |-> look.sent \o post.sent, recv |-> look.recv \o post.recv,
                     out |-> post.out]
    IN IF tried.out.kind = "raise" /\ tried.out.type = "IndexError"
       THEN [tried EXCEPT !.out = Raise("Exception", PStr(Str_unable_next_ip \o network.v))]
       ELSE tried

\* Infoblox.network_range(network, start, end)
network_range(network, start, end, rs) ==
    _request(Str_range,
             PDict((K_start_addr :> start) @@ (K_end_addr :> end) @@ (K_network :> network)),
             Str_POST, rs)

\* Infoblox.get_grid()
get_grid(rs) == _request(Str_member, PDict(<<>>), Str_GET, rs)

\* ------------------------------------------------------ the caller's inputs
Networks == {PStr(<<"1", "0", ".", "0", ".", "0", ".", "0", "/", "2", "8">>)}
Names == {PStr(<<"h", "1", ".", "x">>)}
Addresses == {PStr(<<"1", "0", ".", "0", ".", "0", ".", "1">>)}
Macs == {PStr(<<"a", "a", ":", "b", "b">>)}
Comments == {PStr(<<>>)}
Grids == {PFalse, PStr(<<"1", "0", ".", "1", ".", "1", ".", "1">>)}
Nums == {PInt(n) : n \in 1..MaxNum}
RecordTypes == {T_A, T_AAAA, T_CNAME, T_HOST, T_MX, T_PTR, T_SRV, T_TXT,
                <<"h", "o", "s", "t">>, <<"N", "S">>}
Datas == {PStr(<<"1", "0", ".", "0", ".", "0", ".", "1">>),
          PDict(<<>>),
          PDict(K_mail_exchanger :> PStr(<<"1", "0", ".", "0", ".", "0", ".", "1">>)),
          PDict(K_preference :> PInt(20)),
          PDict((K_mail_exchanger :> PStr(<<"1", "0", ".", "0", ".", "0", ".", "1">>)) @@ (K_preference :> PInt(20)))}
OptionSets == {PDict(<<>>),
               PDict((K_name :> PStr(<<"r", "o", "u", "t", "e", "r", "s">>)) @@ (K_value :> PStr(<<"1", "0", ".", "0", ".", "0", ".", "1">>)))}
Paths == {Str_network, Str_record \o Lower(T_HOST), RefNet, RefRec,
          RefNet \o Str_next_available_ip}
Methods == {Str_GET, Str_POST, Str_DELETE, <<"g", "e", "t">>, <<"P", "U", "T">>}

\* -------------------------------------------------------------- behaviour
\* Infoblox.__init__('https://example.com', 'admin', 'secret')
Init ==
    /\ hostname = <<"h", "t", "t", "p", "s", ":", "/", "/", "e", "x", "a", "m", "p", "l", "e", ".", "c", "o", "m">>
    /\ username = <<"a", "d", "m", "i", "n">>
    /\ password = <<"s", "e", "c", "r", "e", "t">>
    /\ version = <<"1", ".", "2", ".", "1">>
    /\ _RECORDS = <<T_A, T_AAAA, T_CNAME, T_HOST, T_MX, T_PTR, T_SRV, T_TXT>>
    /\ url = <<"h", "t", "t", "p", "s", ":", "/", "/", "e", "x", "a", "m", "p", "l", "e", ".", "c", "o", "m">> \o Str_wapi \o <<"1", ".", "2", ".", "1">> \o Str_slash
    /\ defaultOptions = PDict(<<>>)
    /\ callerOptions \in OptionSets
    /\ pc = "idle"
    /\ call = [op |-> "", args |-> <<>>]
    /\ sent = <<>>
    /\ recv = <<>>
    /\ outcome = NoOutcome

\* a call ends: its requests, responses and outcome are what res says
Finish(op, args, res) ==
    /\ pc' = "done"
    /\ call' = [op |-> op, args |-> args]
    /\ sent' = res.sent
    /\ recv' = res.recv
    /\ outcome' = res.out
    /\ UNCHANGED config

Call_request ==
    /\ pc = "idle"
    /\ \E obj \in Paths, method \in Methods, r1 \in Responses :
         Finish("_request", <<PStr(obj), PDict(<<>>), PStr(method)>>,
                _request(obj, PDict(<<>>), method, <<r1>>))
    /\ UNCHANGED <<defaultOptions, callerOptions>>

Call_get_network ==
    /\ pc = "idle"
    /\ \E network \in Networks, r1 \in Responses :
         Finish("get_network", <<network>>, get_network(network, <<r1>>))
    /\ UNCHANGED <<defaultOptions, callerOptions>>

Call_create_network ==
    /\ pc = "idle"
    /\ \E network \in Networks, grid \in Grids, own \in BOOLEAN, r1 \in Responses :
         LET options == IF own THEN callerOptions ELSE defaultOptions
             res == create_network(network, grid, options, <<r1>>)
         IN /\ Finish("create_network", <<network, grid, options>>, res)
            /\ callerOptions' = IF own THEN res.options ELSE callerOptions
            /\ defaultOptions' = IF own THEN defaultOptions ELSE res.options

Call_get_record ==
    /\ pc = "idle"
    /\ \E record \in Names, record_type \in RecordTypes, r1 \in Responses :
         Finish("get_record", <<record, PStr(record_type)>>,
                get_record(record, record_type, <<r1>>))
    /\ UNCHANGED <<defaultOptions, callerOptions>>

Call_create_record ==
    /\ pc = "idle"
    /\ \E record_type \in RecordTypes, record \in Names, data \in Datas, r1 \in Responses :
         Finish("create_record", <<PStr(record_type), record, data>>,
                create_record(record_type, record, data, <<r1>>))
    /\ UNCHANGED <<defaultOptions, callerOptions>>

Call_delete_record ==
    /\ pc = "idle"
    /\ \E record \in Names, record_type \in RecordTypes, r1 \in Responses, r2 \in Responses :
         Finish("delete_record", <<record, PStr(record_type)>>,
                delete_record(record, record_type, <<r1, r2>>))
    /\ UNCHANGED <<defaultOptions, callerOptions>>

Call_create_fixed_address ==
    /\ pc = "idle"
    /\ \E host \in Names, ip \in Addresses, mac \in Macs, comment \in Comments,
          r1 \in Responses :
         Finish("create_fixed_address", <<host, ip, mac, comment>>,
                create_fixed_address(host, ip, mac, comment, <<r1>>))
    /\ UNCHANGED <<defaultOptions, callerOptions>>

Call_get_next_ip ==
    /\ pc = "idle"
    /\ \E network \in Networks, n \in Nums, r1 \in Responses, r2 \in Responses :
         Finish("get_next_ip", <<network, n>>, get_next_ip(network, n, <<r1, r2>>))
    /\ UNCHANGED <<defaultOptions, callerOptions>>

Call_network_range ==
    /\ pc = "idle"
    /\ \E network \in Networks, start \in Addresses, end \in Addresses, r1 \in Responses :
         Finish("network_range", <<network, start, end>>,
                network_range(network, start, end, <<r1>>))
    /\ UNCHANGED <<defaultOptions, callerOptions>>

Call_get_grid ==
    /\ pc = "idle"
    /\ \E r1 \in Responses : Finish("get_grid", <<>>, get_grid(<<r1>>))
    /\ UNCHANGED <<defaultOptions, callerOptions>>

\* the caller takes the outcome; nothing of the call stays in the client
Done ==
    /\ pc = "done"
    /\ pc' = "idle"
    /\ call' = [op |-> "", args |-> <<>>]
    /\ sent' = <<>>
    /\ recv' = <<>>
    /\ outcome' = NoOutcome
    /\ UNCHANGED <<config, defaultOptions, callerOptions>>

Next ==
    \/ Call_request
    \/ Call_get_network
    \/ Call_create_network
    \/ Call_get_record
    \/ Call_create_record
    \/ Call_delete_record
    \/ Call_create_fixed_address
    \/ Call_get_next_ip
    \/ Call_network_range
    \/ Call_get_grid
    \/ Done

Spec == Init /\ [][Next]_vars

\* ------------------------------------------------------------- properties
SupportedTypes == {T_A, T_AAAA, T_CNAME, T_HOST, T_MX, T_PTR, T_SRV, T_TXT}
UnsupportedError(record_type) == Raise("Exception", PStr(Str_unsupported \o record_type))
Succeeded(r) == r.status_code \in {200, 201}
HasMXKeys(data) ==
    data.t = "dict" /\ K_mail_exchanger \in DOMAIN data.v /\ K_preference \in DOMAIN data.v

\* C1: for every record type outside the supported set (in any spelling of
\* its letters) and every name and data (mappings with or without the MX
\* keys included), get_record and create_record fail with the
\* unsupported-record-type error and issue no HTTP request.
C1_UnsupportedTypeRejected ==
    /\ (pc = "done" /\ call.op = "get_record" /\ Upper(call.args[2].v) \notin SupportedTypes)
         => (outcome = UnsupportedError(call.args[2].v) /\ sent = <<>>)
    /\ (pc = "done" /\ call.op = "create_record" /\ Upper(call.args[1].v) \notin SupportedTypes)
         => (outcome = UnsupportedError(call.args[1].v) /\ sent = <<>>)

\* the payload the specification gives for each record type
C2_Shape(record_type, name, data) ==
    CASE record_type = T_A -> PDict((K_name :> name) @@ (K_ipv4addr :> data))
      [] record_type = T_AAAA -> PDict((K_name :> name) @@ (K_ipv6addr :> data))
      [] record_type = T_CNAME -> PDict((K_name :> name) @@ (K_canonical :> data))
      [] record_type = T_HOST ->
            PDict((K_name :> name) @@ (K_ipv4addrs :> PList(<<PDict(K_ipv4addr :> data)>>)))
      [] record_type = T_PTR ->
            PDict((K_name :> name) @@ (K_ipv4addr :> data) @@ (K_ptrdname :> name))
      [] record_type = T_TXT -> PDict((K_name :> name) @@ (K_text :> data))
      [] record_type = T_MX ->
            PDict((K_name :> name) @@ (K_mail_exchanger :> data.v[K_mail_exchanger])
                  @@ (K_preference :> data.v[K_preference]))

\* C2: for every supported record type, create_record (given a string as
\* data, or for MX a mapping with both MX keys) issues exactly one POST to
\* 'record:' + lower-cased type with the payload of that type; no supported
\* type ends without a request.
C2_SupportedTypePosted ==
    (/\ pc = "done"
     /\ call.op = "create_record"
     /\ call.args[1].v \in SupportedTypes
     /\ IF call.args[1].v = T_MX THEN HasMXKeys(call.args[3]) ELSE call.args[3].t = "str")
    => /\ Len(sent) = 1
       /\ sent[1].method = Str_POST
       /\ sent[1].obj = Str_record \o Lower(call.args[1].v)
       /\ call.args[1].v # T_SRV
            => sent[1].req = C2_Shape(call.args[1].v, call.args[2], call.args[3])

DomainOps == {"get_network", "create_network", "get_record", "create_record",
              "delete_record", "create_fixed_address", "get_next_ip", "network_range",
              "get_grid"}
LookupOps == {"delete_record", "get_next_ip"}

\* C3 as stated: each domain operation is a single request: a call that
\* reaches the service issues exactly one HTTP request, so that none fails
\* after an earlier request of the same call.
C3_ExactlyOneRequest ==
    (pc = "done" /\ call.op \in DomainOps /\ sent # <<>>) => Len(sent) = 1

\* C3, amended: the seven operations without a lookup issue at most one
\* request per call; delete_record and get_next_ip issue a lookup GET and,
\* only after that lookup was answered with a success status, at most one
\* further request.
C3_AtMostOneAfterLookup ==
    (pc = "done" /\ call.op \in DomainOps) =>
       /\ call.op \notin LookupOps => Len(sent) <= 1
       /\ call.op \in LookupOps =>
            /\ Len(sent) <= 2
            /\ Len(sent) >= 1 => sent[1].method = Str_GET
            /\ Len(sent) = 2 => Succeeded(recv[1])

\* C3 witness: a delete_record that failed after its lookup and its DELETE
\* had both been sent
C3_Witness ==
    /\ pc = "done"
    /\ call.op = "delete_record"
    /\ Len(sent) = 2
    /\ sent[2].method = Str_DELETE
    /\ outcome.kind = "raise"

\* bodies of a lookup that found nothing
EmptyResults == {<<"[", "]">>, <<"{", "}">>, <<"\"", "\"">>}
\* bodies of a lookup that found at least one record
RecordLists == {x \in JsonValues : x.t = "list" /\ Len(x.v) > 0}

\* C4: delete_record, when its lookup succeeds with an empty result, fails
\* with the record-not-found error and issues no DELETE; a DELETE is only
\* sent, as the second request, after the lookup of the same call returned
\* at least one record.
C4_DeleteOnlyFoundRecord ==
    (pc = "done" /\ call.op = "delete_record") =>
       /\ (Len(recv) >= 1 /\ Succeeded(recv[1]) /\ recv[1].content \in EmptyResults)
            => /\ outcome = Raise("Exception", PStr(Str_unable_delete \o call.args[1].v))
               /\ Len(sent) = 1
               /\ sent[1].method = Str_GET
       /\ \A i \in 1..Len(sent) :
            sent[i].method = Str_DELETE
              => /\ i = 2
                 /\ sent[1].method = Str_GET
                 /\ Succeeded(recv[1])
                 /\ \E x \in RecordLists :
                      /\ recv[1].content = Encode(x)
                      /\ K_ref \in DOMAIN x.v[1].v
                      /\ sent[2].obj = x.v[1].v[K_ref].v

\* C4 witness: a delete_record whose lookup was answered 200 with []
C4_Witness ==
    /\ pc = "done"
    /\ call.op = "delete_record"
    /\ Len(recv) = 1
    /\ recv[1] = [status_code |-> 200, content |-> <<"[", "]">>]
    /\ outcome.kind = "raise"

\* C5: get_next_ip(cidr, n), when its lookup succeeds with an empty list,
\* fails with the network-not-found error and never issues the POST; when
\* the lookup returns records, the POST goes to the first record's _ref
\* followed by '?_function=next_available_ip' with payload {num: n}.
C5_NextIpUsesFirstRef ==
    (pc = "done" /\ call.op = "get_next_ip") =>
       /\ (Len(recv) >= 1 /\ Succeeded(recv[1]) /\ recv[1].content = <<"[", "]">>)
            => /\ outcome = Raise("Exception", PStr(Str_unable_next_ip \o call.args[1].v))
               /\ Len(sent) = 1
               /\ sent[1].method = Str_GET
       /\ \A x \in RecordLists :
            (/\ Len(recv) >= 1
             /\ Succeeded(recv[1])
             /\ recv[1].content = Encode(x)
             /\ K_ref \in DOMAIN x.v[1].v)
            => /\ Len(sent) = 2
               /\ sent[2].method = Str_POST
               /\ sent[2].obj = x.v[1].v[K_ref].v \o <<"?", "_", "f", "u", "n", "c", "t", "i", "o", "n", "=", "n", "e", "x", "t", "_", "a", "v", "a", "i", "l", "a", "b", "l", "e", "_", "i", "p">>
               /\ sent[2].req = PDict(K_num :> call.args[2])
       /\ Len(sent) = 2
            => \E x \in RecordLists : Succeeded(recv[1]) /\ recv[1].content = Encode(x)

\* C5 witness: a lookup answered with two networks, and the POST sent
C5_Witness ==
    /\ pc = "done"
    /\ call.op = "get_next_ip"
    /\ Len(sent) = 2
    /\ recv[1].content = <<"[", "{", "\"", "_", "r", "e", "f", "\"", ":", "\"", "n", "e", "t", "w", "o", "r", "k", "/", "1", "\"", "}", ",", "{", "\"", "_", "r", "e", "f", "\"", ":", "\"", "r", "e", "c", "o", "r", "d", ":", "h", "o", "s", "t", "/", "1", "\"", "}", "]">>
    /\ sent[2].obj = <<"n", "e", "t", "w", "o", "r", "k", "/", "1", "?", "_", "f", "u", "n", "c", "t", "i", "o", "n", "=", "n", "e", "x", "t", "_", "a", "v", "a", "i", "l", "a", "b", "l", "e", "_", "i", "p">>

\* C6: for every response whose status is neither 200 nor 201 and whose
\* body is a JSON object with a 'text' field, _request raises an exception
\* carrying exactly that text; it returns nothing.
C6_ErrorStatusRaisesText ==
    (/\ pc = "done"
     /\ call.op = "_request"
     /\ Len(recv) = 1
     /\ ~Succeeded(recv[1])
     /\ recv[1].content = <<"{", "\"", "t", "e", "x", "t", "\"", ":", "\"", "n", "o", "t", " ", "f", "o", "u", "n", "d", "\"", "}">>)
    => outcome = Raise("Exception", PStr(<<"n", "o", "t", " ", "f", "o", "u", "n", "d">>))

\* C6 witness: a 204 with an error object
C6_Witness ==
    /\ pc = "done"
    /\ call.op = "_request"
    /\ Len(recv) = 1
    /\ recv[1] = [status_code |-> 204, content |-> <<"{", "\"", "t", "e", "x", "t", "\"", ":", "\"", "n", "o", "t", " ", "f", "o", "u", "n", "d", "\"", "}">>]
    /\ outcome.kind = "raise"

\* the body without its double quotes starts with the request path
C7_Echo(content, obj) ==
    LET stripped == SelectSeq(content, LAMBDA c : c # Quote)
    IN /\ Len(obj) <= Len(stripped)
       /\ \A i \in 1..Len(obj) : stripped[i] = obj[i]

\* C7 as stated: for a 200 or 201, _request returns True exactly when the
\* body without double quotes starts with the request path, and otherwise
\* returns the body decoded as JSON.
C7_TrueExactlyOnEcho ==
    (pc = "done" /\ call.op = "_request" /\ Len(recv) = 1 /\ Succeeded(recv[1])) =>
       /\ outcome = Return(PTrue) <=> C7_Echo(recv[1].content, sent[1].obj)
       /\ ~C7_Echo(recv[1].content, sent[1].obj)
            => (outcome.kind = "return" /\ outcome = JsonDecode(recv[1].content))

\* C7, amended: for a 200 or 201, _request returns True whenever the body
\* without double quotes starts with the request path; otherwise its outcome
\* is that of decoding the body as JSON: the decoded value, or the decoder's
\* error.
C7_TrueOnEchoElseDecode ==
    (pc = "done" /\ call.op = "_request" /\ Len(recv) = 1 /\ Succeeded(recv[1])) =>
       /\ C7_Echo(recv[1].content, sent[1].obj) => outcome = Return(PTrue)
       /\ ~C7_Echo(recv[1].content, sent[1].obj) => outcome = JsonDecode(recv[1].content)

\* C7 witness: the quoted reference of a new network echoed to a request
\* on 'network'
C7_Witness ==
    /\ pc = "done"
    /\ call.op = "_request"
    /\ Len(recv) = 1
    /\ sent[1].obj = <<"n", "e", "t", "w", "o", "r", "k">>
    /\ recv[1] = [status_code |-> 201, content |-> <<"\"", "n", "e", "t", "w", "o", "r", "k", "/", "1", "\"">>]
    /\ outcome = Return(PTrue)

\* C8: create_record('MX', name, data) fails on the missing argument (a
\* KeyError naming 'MX', 'mail_exchanger' or 'preference') and issues no
\* HTTP request whenever data is not a mapping or lacks one of the MX keys.
C8_BadMXDataRejected ==
    (/\ pc = "done"
     /\ call.op = "create_record"
     /\ call.args[1].v = T_MX
     /\ ~HasMXKeys(call.args[3]))
    => /\ outcome.kind = "raise"
       /\ outcome.type = "KeyError"
       /\ outcome.value \in {PStr(<<"M", "X">>), PStr(<<"m", "a", "i", "l", "_", "e", "x", "c", "h", "a", "n", "g", "e", "r">>), PStr(<<"p", "r", "e", "f", "e", "r", "e", "n", "c", "e">>)}
       /\ sent = <<>>

\* C8 witness: an MX record asked for with a mapping that has no preference
C8_Witness ==
    /\ pc = "done"
    /\ call.op = "create_record"
    /\ call.args[1].v = T_MX
    /\ call.args[3].t = "dict"
    /\ DOMAIN call.args[3].v = {K_mail_exchanger}
    /\ outcome = Raise("KeyError", PStr(<<"p", "r", "e", "f", "e", "r", "e", "n", "c", "e">>))

\* C9: a supported record type spelled in lower case is accepted:
\* get_record(name, 'host') and delete_record(name, 'host') issue the GET
\* lookup instead of failing as an unsupported record type.
C9_LowerCaseTypeAccepted ==
    (/\ pc = "done"
     /\ call.op \in {"get_record", "delete_record"}
     /\ call.args[2].v = <<"h", "o", "s", "t">>)
    => /\ Len(sent) >= 1
       /\ sent[1].method = Str_GET
       /\ outcome # UnsupportedError(<<"h", "o", "s", "t">>)

\* C10: no call changes the connection config, the supported record types,
\* the caller's options mapping or create_network's default options, and
\* every request a call builds goes to the constructed base URL with the
\* constructed credentials.
C10_Stateless ==
    [][/\ config' = config
       /\ callerOptions' = callerOptions
       /\ defaultOptions' = defaultOptions
       /\ \A i \in 1..Len(sent') :
            /\ sent'[i].url = <<"h", "t", "t", "p", "s", ":", "/", "/", "e", "x", "a", "m", "p", "l", "e", ".", "c", "o", "m", "/", "w", "a", "p", "i", "/", "v", "1", ".", "2", ".", "1", "/">> \o sent'[i].obj
            /\ sent'[i].auth = <<<<"a", "d", "m", "i", "n">>, <<"s", "e", "c", "r", "e", "t">>>>]_vars

\* C10 witness: a create_network given the caller's non-empty options
C10_Witness ==
    /\ pc = "done"
    /\ call.op = "create_network"
    /\ Truthy(call.args[3])
    /\ Len(sent) = 1
    /\ call.args[3] = callerOptions
====
